---- MODULE Spec2Model ----
(***************************************************************************)
(* Lifecycle of the embedded Python interpreter managed by                 *)
(* pyembed::MainPythonInterpreter (src/pyembed/src/interpreter.rs).        *)
(*                                                                         *)
(* Every instance is driven by its own thread.  A handler is executed as a *)
(* sequence of steps, one per externally visible effect, in source order;  *)
(* pc[i] is the position of thread i inside the handler it is running.     *)
(* The process-wide state is the GLOBAL_INTERPRETER_GUARD mutex, the       *)
(* process environment, the two import-table statics and the CPython       *)
(* runtime reached through python3-sys.                                    *)
(*                                                                         *)
(* new() is the only public caller of init(); the other calls of init()    *)
(* and the calls made on an instance whose init() failed are those of code *)
(* inside the module, which holds such an instance before it is dropped.   *)
(* A config whose try_into() fails in new() constructs nothing and has no  *)
(* effect, so it is not among the inputs.  Panics unwind.                  *)
(***************************************************************************)
EXTENDS Integers, Sequences, FiniteSets, TLC

(* ------------------------------ bounds --------------------------------- *)

\* Number of MainPythonInterpreter instances (one thread each).
NumInst == 2

\* Number of configurations of ConfigList a construction may be given.
NumConfigs == 3

\* Number of calls made on the instances after their construction, in the
\* single-threaded and in the multi-threaded specification.
MaxCalls == 4
MaxCallsConc == 1

\* Number of configurations the multi-threaded specification draws from.
NumConfigsConc == 2

\* Number of items of sys.modules that write_modules_to_directory is given.
MaxModules == 4

\* Number of lines of the text that parse_str is given.
MaxLines == 3

Inst == 1..NumInst

(* --------------------------- configurations ---------------------------- *)

\* ResolvedOxidizedPythonInterpreterConfig, the fields interpreter.rs reads.
Cfg(ti, tcl, ox, fs, alloc, dbg, ab, fr, mp, wmd, extra) ==
    [terminfo_resolution |-> ti, tcl_library |-> tcl, oxidized_importer |-> ox,
     filesystem_importer |-> fs, raw_allocator |-> alloc, debug |-> dbg,
     argvb |-> ab, sys_frozen |-> fr, sys_meipass |-> mp,
     write_modules_directory_env |-> wmd, extra_extension_modules |-> extra]

ConfigList ==
    << Cfg("Dynamic", TRUE, TRUE, FALSE, "Rust", TRUE, TRUE, TRUE, TRUE, TRUE, <<"x">>),
       Cfg("None", FALSE, FALSE, TRUE, "None", FALSE, FALSE, FALSE, FALSE, FALSE, <<>>),
       Cfg("Static", FALSE, TRUE, TRUE, "System", TRUE, FALSE, FALSE, FALSE, TRUE, <<"y", "x">>),
       Cfg("None", TRUE, FALSE, FALSE, "Jemalloc", FALSE, TRUE, FALSE, TRUE, FALSE, <<"x", "y">>),
       Cfg("Static", FALSE, TRUE, FALSE, "System", FALSE, FALSE, TRUE, FALSE, TRUE, <<>>),
       Cfg("Dynamic", TRUE, FALSE, TRUE, "Rust", FALSE, TRUE, TRUE, FALSE, FALSE, <<"y">>) >>


(* ------------------------------- state --------------------------------- *)

VARIABLES
    pc,                 \* position of thread i
    config,             \* self.config
    interpreter_state,  \* self.interpreter_state
    interpreter_guard,  \* self.interpreter_guard is Some
    raw_allocator,      \* self.raw_allocator
    gil,                \* self.gil: the GILGuard held, by the state it recorded
    py,                 \* self.py is Some
    resources_state,    \* self.resources_state is Some
    result,             \* value returned by the last handler that returned
    calls,              \* calls made on the instances after the new()s
    log,                \* effects performed on behalf of instance i, in order
    guardOwner,         \* holder of GLOBAL_INTERPRETER_GUARD, 0 when free
    poisoned,           \* GLOBAL_INTERPRETER_GUARD is poisoned
    env,                \* process environment variables written by the code
    rt,                 \* CPython runtime of the process
    rtOwner,            \* instance whose init() initialized the runtime
    gilHolder,          \* thread holding the runtime's GIL, 0 when free
    ORIGINAL_BUILTIN_EXTENSIONS,    \* Option: << >> is None, << v >> is Some(v)
    REPLACED_BUILTIN_EXTENSIONS,    \* Option, likewise
    PyImport_Inittab,   \* table the runtime's pointer designates
    inittab_dangling,   \* the vector that pointer designates was deallocated
    meta_path,          \* sys.meta_path of the runtime
    scope,              \* what the client threads of this specification do
    wm,                 \* the call of write_modules_to_directory:
                        \*   pc       position inside the function
                        \*   modules  keys of sys.modules, as items() gives them
                        \*   iter     number of items the current loop consumed
                        \*   names    the BTreeSet, as its ascending iteration
                        \*   dir, file, bytes  the directory and the
                        \*            modules-<UUID> file on disk
                        \*   result   value the function returned
    pd,                 \* the call of the PythonDistribution constructor:
                        \*   pc       position inside the constructor
                        \*   sha256, local_path, url  its arguments
                        \*   context  python_distributions_path of CONTEXT
                        \*   distribution  its local variable distribution
                        \*   ret      value the constructor returned
    ps                  \* the call of parse_str:
                        \*   pc       position inside the function
                        \*   data     the lines of its argument
                        \*   loaded   the documents YamlLoader finds in data
                        \*   overflow_checks  the build checks arithmetic
                        \*   yamls, document_versions, index, res  its locals
                        \*   wrapped  the subtraction of line 105 wrapped
                        \*   ret      value the function returned

\* State of the interpreter lifecycle.
lifecycleVars == << pc, config, interpreter_state, interpreter_guard,
                    raw_allocator, gil, py, resources_state, result, calls, log,
                    guardOwner, poisoned, env, rt, rtOwner, gilHolder,
                    ORIGINAL_BUILTIN_EXTENSIONS, REPLACED_BUILTIN_EXTENSIONS,
                    PyImport_Inittab, inittab_dangling, meta_path, scope >>

\* State of the functions specified on their own.
pureVars == << wm, pd, ps >>

vars == << lifecycleVars, pureVars >>

instVars == << config, interpreter_state, interpreter_guard, raw_allocator, gil,
               py, resources_state >>
tabVars == << ORIGINAL_BUILTIN_EXTENSIONS, REPLACED_BUILTIN_EXTENSIONS,
              PyImport_Inittab, inittab_dangling >>
rtVars == << rt, rtOwner, gilHolder, meta_path >>

(* ------------------------------ helpers -------------------------------- *)

None == "None"

\* The sentinel record with NULLs that ends an inittab array.
Sentinel == "NULL"

\* Built-in extension table compiled into libpython.
BuiltinInittab == << "posix", "_io", Sentinel >>

\* The effects es are recorded for instance i.
LoggedAll(i, es) ==
    log' = IF scope.trace THEN [log EXCEPT ![i] = @ \o es] ELSE log
Logged(i, e) == LoggedAll(i, << e >>)

RECURSIVE Count(_, _)
Count(s, e) ==
    IF s = << >> THEN 0
    ELSE (IF Head(s) = e THEN 1 ELSE 0) + Count(Tail(s), e)

\* A handler returns value r to its caller.
Return(i, r) == /\ pc' = [pc EXCEPT ![i] = "idle"]
                /\ result' = [result EXCEPT ![i] = r]

Goto(i, p) == /\ pc' = [pc EXCEPT ![i] = p]
              /\ UNCHANGED result

(* ------------------------------- Init ---------------------------------- *)

DefaultConfig == ConfigList[1]

Outcomes == {"ok", "cfg_err", "argv_err", "status_err", "new_err", "load_err",
             "import_err", "init_err", "sys_err", "meta_err", "pop_err",
             "argvb_err", "oxidized_err", "frozen_err", "meipass_err"}

\* One thread drives one instance through any sequence of calls.
SeqScope == [threads |-> {1}, calls |-> MaxCalls, outcomes |-> Outcomes,
             configs |-> 1..NumConfigs, trace |-> TRUE]

\* Every thread constructs, uses and drops an instance of its own.
ConcScope == [threads |-> Inst, calls |-> MaxCallsConc,
              outcomes |-> {"ok", "status_err"}, configs |-> 1..NumConfigsConc,
              trace |-> FALSE]

InitState ==
    /\ pc = [i \in Inst |-> "none"]
    /\ config = [i \in Inst |-> DefaultConfig]
    /\ interpreter_state = [i \in Inst |-> "NotStarted"]
    /\ interpreter_guard = [i \in Inst |-> FALSE]
    /\ raw_allocator = [i \in Inst |-> None]
    /\ gil = [i \in Inst |-> None]
    /\ py = [i \in Inst |-> FALSE]
    /\ resources_state = [i \in Inst |-> FALSE]
    /\ result = [i \in Inst |-> None]
    /\ calls = 0
    /\ log = [i \in Inst |-> << >>]
    /\ guardOwner = 0
    /\ poisoned = FALSE
    /\ env = [TERMINFO_DIRS |-> "unset", TCL_LIBRARY |-> "unset"]
    /\ rt = "uninit"
    /\ rtOwner = 0
    /\ gilHolder = 0
    /\ ORIGINAL_BUILTIN_EXTENSIONS = << >>
    /\ REPLACED_BUILTIN_EXTENSIONS = << >>
    /\ PyImport_Inittab = BuiltinInittab
    /\ inittab_dangling = FALSE
    /\ meta_path = << >>

\* No call of write_modules_to_directory is under way.
InitWriteIdle ==
    wm = [pc |-> "none", modules |-> << >>, iter |-> 0, names |-> << >>,
          dir |-> FALSE, file |-> FALSE, bytes |-> << >>, result |-> None]

\* No call of the PythonDistribution constructor is under way.
InitDistIdle ==
    pd = [pc |-> "none", sha256 |-> None, local_path |-> None, url |-> None,
          context |-> None, distribution |-> None, ret |-> None]

\* No call of parse_str is under way.
InitParseIdle ==
    ps = [pc |-> "none", data |-> << >>, loaded |-> << >>,
          overflow_checks |-> FALSE, yamls |-> << >>,
          document_versions |-> << >>, index |-> 0, res |-> << >>,
          wrapped |-> FALSE, ret |-> None]

InitPure == InitWriteIdle /\ InitDistIdle /\ InitParseIdle

Init == InitState /\ InitPure /\ scope = SeqScope

InitConc == InitState /\ InitPure /\ scope = ConcScope

(* ------------------------- MainPythonInterpreter::new ------------------ *)

\* new() up to the call of init(): the terminfo write and the construction
\* of the NotStarted value.  dirs is what resolve_terminfo_dirs() returned.
New(i, cfg, dirs) ==
    /\ pc[i] = "none"
    /\ UNCHANGED << scope, pureVars >>
    /\ i \in scope.threads
    /\ LET write == \/ cfg.terminfo_resolution = "Static"
                    \/ cfg.terminfo_resolution = "Dynamic" /\ dirs
       IN /\ env' = IF write
                    THEN [env EXCEPT !.TERMINFO_DIRS = cfg.terminfo_resolution]
                    ELSE env
          /\ LoggedAll(i, IF write THEN << "terminfo_write" >> ELSE << >>)
    /\ config' = [config EXCEPT ![i] = cfg]
    /\ interpreter_guard' = [interpreter_guard EXCEPT ![i] = FALSE]
    /\ interpreter_state' = [interpreter_state EXCEPT ![i] = "NotStarted"]
    /\ raw_allocator' = [raw_allocator EXCEPT ![i] = None]
    /\ gil' = [gil EXCEPT ![i] = None]
    /\ py' = [py EXCEPT ![i] = FALSE]
    /\ resources_state' = [resources_state EXCEPT ![i] = FALSE]
    /\ Goto(i, "init")
    /\ UNCHANGED << calls, guardOwner, poisoned, rtVars, tabVars >>

\* A later call of init() on an instance that already exists.
CallInit(i) ==
    /\ pc[i] = "idle"
    /\ UNCHANGED << scope, pureVars >>
    /\ calls < scope.calls
    /\ calls' = calls + 1
    /\ Goto(i, "init")
    /\ UNCHANGED << instVars, log, guardOwner, poisoned, env, rtVars, tabVars >>

(* ------------------------- set_pyimport_inittab ------------------------ *)

\* The records of an inittab array that precede its first NULL record.
RECURSIVE UntilSentinel(_)
UntilSentinel(tab) ==
    IF tab = << >> \/ Head(tab) = Sentinel THEN << >>
    ELSE << Head(tab) >> \o UntilSentinel(Tail(tab))

\* A copy taken from the active table on every call.
OriginalRecopied(orig, active) == << UntilSentinel(active) >>

\* ORIGINAL_BUILTIN_EXTENSIONS after the first-time copy.
OriginalAfter(orig, active) ==
    IF orig = << >> THEN << UntilSentinel(active) >> ELSE orig

\* The configured extras placed ahead of the custom loader's record.
ExtensionsExtrasFirst(orig, cfg) ==
    orig
    \o cfg.extra_extension_modules
    \o (IF cfg.oxidized_importer THEN << "oxidized_importer" >> ELSE << >>)
    \o << Sentinel >>

\* The vector set_pyimport_inittab builds from the canonical copy.
Extensions(orig, cfg) ==
    orig
    \o (IF cfg.oxidized_importer THEN << "oxidized_importer" >> ELSE << >>)
    \o cfg.extra_extension_modules
    \o << Sentinel >>

\* set_pyimport_inittab up to the assignment of the new vector to
\* REPLACED_BUILTIN_EXTENSIONS.  The assignment drops the Box the static held,
\* which is the vector the runtime's pointer designates since the last call.
set_pyimport_inittab(cfg) ==
    LET orig == OriginalAfter(ORIGINAL_BUILTIN_EXTENSIONS, PyImport_Inittab)
        extensions == Extensions(orig[1], cfg)
    IN /\ ORIGINAL_BUILTIN_EXTENSIONS' = orig
       /\ REPLACED_BUILTIN_EXTENSIONS' = << extensions >>
       /\ inittab_dangling' = (REPLACED_BUILTIN_EXTENSIONS # << >>)
       /\ UNCHANGED PyImport_Inittab

\* The last statement of set_pyimport_inittab: the runtime's pointer is set
\* to the vector REPLACED_BUILTIN_EXTENSIONS now holds.
SetInittabPointer ==
    /\ PyImport_Inittab' = REPLACED_BUILTIN_EXTENSIONS[1]
    /\ inittab_dangling' = FALSE
    /\ UNCHANGED << ORIGINAL_BUILTIN_EXTENSIONS, REPLACED_BUILTIN_EXTENSIONS >>

(* ----------------------- CPython runtime (python3-sys) ----------------- *)

\* The runtime has an interpreter that Py_FinalizeEx / Py_RunMain tear down;
\* without one, Py_FinalizeEx returns at once.
RuntimeUp == rt \in {"core", "main"}

\* Effect of Py_FinalizeEx, also performed at the end of Py_RunMain.
FinalizeRuntime ==
    IF RuntimeUp
    THEN /\ rt' = "fin"
         /\ rtOwner' = 0
         /\ gilHolder' = 0
         /\ meta_path' = << >>
    ELSE UNCHANGED rtVars

(* ------------------------ MainPythonInterpreter::init ------------------ *)

\* A lock granted while another thread holds the mutex.
GuardFreeAlways(owner) == TRUE

\* GLOBAL_INTERPRETER_GUARD.lock() blocks until no thread holds the mutex.
GuardFree(owner) == owner = 0

\* GLOBAL_INTERPRETER_GUARD.lock() returns Err once the mutex is poisoned.
LockFailsIgnoringPoison == FALSE
LockFails == poisoned

\* The match on interpreter_state, the assert and the lock of the guard.
InitEnter(i) ==
    /\ pc[i] = "init"
    /\ UNCHANGED << scope, pureVars >>
    /\ \/ /\ interpreter_state[i] = "Initializing"
          /\ Return(i, "interpreter in initializing state")
          /\ UNCHANGED << instVars, log, guardOwner >>
       \/ /\ interpreter_state[i] = "Initialized"
          /\ Return(i, "Ok")
          /\ UNCHANGED << instVars, log, guardOwner >>
       \/ /\ interpreter_state[i] \in {"NotStarted", "Finalized"}
          /\ ~interpreter_guard[i]          \* assert!(..is_none())
          /\ GuardFree(guardOwner)
          /\ IF LockFails
             THEN /\ Return(i, "unable to acquire global interpreter guard")
                  /\ UNCHANGED << instVars, log, guardOwner >>
             ELSE /\ guardOwner' = i
                  /\ interpreter_guard' = [interpreter_guard EXCEPT ![i] = TRUE]
                  /\ interpreter_state' =
                         [interpreter_state EXCEPT ![i] = "Initializing"]
                  /\ Logged(i, "guard_acquire")
                  /\ Goto(i, "init_tab")
                  /\ UNCHANGED << config, raw_allocator, gil, py, resources_state >>
    /\ UNCHANGED << calls, poisoned, env, rtVars, tabVars >>

\* The allocator block placed ahead of the pre-initialization.
InitOrderAllocatorFirst == << "init_tab", "init_alloc", "init_pre", "init_core" >>

\* The blocks of init() from set_pyimport_inittab to Py_InitializeFromConfig,
\* in source order: table rebuild, pre-initialization, allocator, core.
InitOrder == << "init_tab", "init_pre", "init_alloc", "init_core" >>

\* The block that follows block p.
StepAfter(p) ==
    InitOrder[(CHOOSE k \in 1..Len(InitOrder) : InitOrder[k] = p) + 1]

\* TCL_LIBRARY and set_pyimport_inittab(&self.config), up to the assignment
\* of REPLACED_BUILTIN_EXTENSIONS.
InitInittab(i) ==
    /\ pc[i] = "init_tab"
    /\ UNCHANGED << scope, pureVars >>
    /\ IF config[i].tcl_library
       THEN /\ env' = [env EXCEPT !.TCL_LIBRARY = "set"]
            /\ LoggedAll(i, << "tcl_write", "inittab" >>)
       ELSE /\ UNCHANGED env
            /\ Logged(i, "inittab")
    /\ set_pyimport_inittab(config[i])
    /\ Goto(i, "init_tab_ptr")
    /\ UNCHANGED << instVars, calls, guardOwner, poisoned, rtVars >>

\* The end of set_pyimport_inittab: PyImport_Inittab is pointed at the new
\* vector.
InitInittabPointer(i) ==
    /\ pc[i] = "init_tab_ptr"
    /\ UNCHANGED << scope, pureVars >>
    /\ SetInittabPointer
    /\ Goto(i, StepAfter("init_tab"))
    /\ UNCHANGED << instVars, calls, log, guardOwner, poisoned, env, rtVars >>

\* PyPreConfig::try_from and Py_PreInitialize.
InitPre(i, o) ==
    /\ pc[i] = "init_pre"
    /\ UNCHANGED << scope, pureVars >>
    /\ \/ /\ o = "cfg_err"
          /\ Return(i, "PyPreConfig::try_from")
          /\ UNCHANGED << log, rt >>
       \/ /\ o = "status_err"
          /\ Logged(i, "Py_PreInitialize")
          /\ Return(i, "Python pre-initialization")
          /\ UNCHANGED rt
       \/ /\ o = "ok"
          /\ Logged(i, "Py_PreInitialize")
          /\ rt' = IF rt \in {"uninit", "fin"} THEN "pre" ELSE rt
          /\ Goto(i, StepAfter("init_pre"))
    /\ UNCHANGED << instVars, calls, guardOwner, poisoned, env, tabVars,
                    rtOwner, gilHolder, meta_path >>

\* The debug hooks installed ahead of the allocator they wrap.
AllocatorCallsHooksFirst(cfg, ra) ==
    (IF cfg.debug THEN << "PyMem_SetupDebugHooks" >> ELSE << >>)
    \o (IF ra # None THEN << "PyMem_SetAllocator" >> ELSE << >>)

\* The calls into the runtime that the allocator block makes, in order, for
\* a configured allocator; ra is self.raw_allocator.
AllocatorCalls(cfg, ra) ==
    (IF ra # None THEN << "PyMem_SetAllocator" >> ELSE << >>)
    \o (IF cfg.debug THEN << "PyMem_SetupDebugHooks" >> ELSE << >>)

\* Override of the raw allocator and the debug hooks.
InitAlloc(i) ==
    /\ pc[i] = "init_alloc"
    /\ UNCHANGED << scope, pureVars >>
    /\ LET ra == IF config[i].raw_allocator \in {"Jemalloc", "Rust"}
                 THEN config[i].raw_allocator
                 ELSE raw_allocator[i]
       IN IF config[i].raw_allocator # None
          THEN /\ raw_allocator' = [raw_allocator EXCEPT ![i] = ra]
               /\ LoggedAll(i, AllocatorCalls(config[i], ra))
          ELSE UNCHANGED << raw_allocator, log >>
    /\ Goto(i, StepAfter("init_alloc"))
    /\ UNCHANGED << config, interpreter_state, interpreter_guard, gil, py,
                    resources_state, calls, guardOwner, poisoned, env, rtVars,
                    tabVars >>

\* The context given to new_from_pystatus for Py_InitializeFromConfig.
CoreStatusContextOfPreInit == "Python pre-initialization"
CoreStatusContext == "initializing Python core"

\* PyConfig conversion, set_argv and Py_InitializeFromConfig (_init_main = 0).
InitCore(i, o) ==
    /\ pc[i] = "init_core"
    /\ UNCHANGED << scope, pureVars >>
    /\ \/ /\ o = "cfg_err"
          /\ Return(i, "PyConfig::try_into")
          /\ UNCHANGED << log, rtVars >>
       \/ /\ o = "argv_err"
          /\ Return(i, "set_argv")
          /\ UNCHANGED << log, rtVars >>
       \/ /\ o = "status_err"
          /\ Logged(i, "Py_InitializeFromConfig")
          /\ Return(i, CoreStatusContext)
          /\ UNCHANGED rtVars
       \/ /\ o = "ok"
          /\ Logged(i, "Py_InitializeFromConfig")
          /\ rt' = "core"
          /\ rtOwner' = i
          /\ gilHolder' = i
          /\ meta_path' = << "BuiltinImporter", "FrozenImporter" >>
          /\ Goto(i, "init_res")
    /\ UNCHANGED << instVars, calls, guardOwner, poisoned, env, tabVars >>

\* initialize_importer registers the finder in sys.meta_path, ahead of the
\* importers already there.
initialize_importer(mp) == << "OxidizedFinder" >> \o mp

\* The resources block run whatever the configuration says.
OxidizedImporterAlways(cfg) == TRUE

\* if self.config.oxidized_importer.
OxidizedImporterEnabled(cfg) == cfg.oxidized_importer

\* PythonResourcesState and the oxidized importer.
InitResources(i, o) ==
    /\ pc[i] = "init_res"
    /\ UNCHANGED << scope, pureVars >>
    /\ IF ~OxidizedImporterEnabled(config[i])
       THEN /\ o = "ok"
            /\ Goto(i, "init_main")
            /\ UNCHANGED << resources_state, log, meta_path >>
       ELSE \/ /\ o = "new_err"
               /\ Logged(i, "new_from_env")
               /\ Return(i, "PythonResourcesState::new_from_env")
               /\ UNCHANGED << resources_state, meta_path >>
            \/ /\ o = "load_err"
               /\ LoggedAll(i, << "new_from_env", "load" >>)
               /\ resources_state' = [resources_state EXCEPT ![i] = TRUE]
               /\ Return(i, "PythonResourcesState::load")
               /\ UNCHANGED meta_path
            \/ /\ o = "import_err"
               /\ LoggedAll(i, << "new_from_env", "load", "import_importer" >>)
               /\ resources_state' = [resources_state EXCEPT ![i] = TRUE]
               /\ Return(i, "import of oxidized importer module")
               /\ UNCHANGED meta_path
            \/ /\ o = "init_err"
               /\ LoggedAll(i, << "new_from_env", "load", "import_importer",
                                  "initialize_importer" >>)
               /\ resources_state' = [resources_state EXCEPT ![i] = TRUE]
               /\ Return(i, "initialization of oxidized importer")
               /\ UNCHANGED meta_path
            \/ /\ o = "ok"
               /\ LoggedAll(i, << "new_from_env", "load", "import_importer",
                                  "initialize_importer" >>)
               /\ resources_state' = [resources_state EXCEPT ![i] = TRUE]
               /\ meta_path' = initialize_importer(meta_path)
               /\ Goto(i, "init_main")
    /\ UNCHANGED << config, interpreter_state, interpreter_guard, raw_allocator,
                    gil, py, calls, guardOwner, poisoned, env, tabVars, rt,
                    rtOwner, gilHolder >>

\* _Py_InitializeMain.
InitMain(i, o) ==
    /\ pc[i] = "init_main"
    /\ UNCHANGED << scope, pureVars >>
    /\ Logged(i, "_Py_InitializeMain")
    /\ \/ /\ o = "status_err"
          /\ Return(i, "initializing Python main")
          /\ UNCHANGED << rt, meta_path >>
       \/ /\ o = "ok"
          /\ rt' = "main"
          /\ meta_path' = Append(meta_path, "PathFinder")
          /\ Goto(i, "init_fs")
    /\ UNCHANGED << instVars, calls, guardOwner, poisoned, env, tabVars,
                    rtOwner, gilHolder >>

\* list.pop(0): removes the first item.
MetaPathPopFirst(mp) == Tail(mp)

\* list.pop() without an argument: removes the last item.
MetaPathPop(mp) == SubSeq(mp, 1, Len(mp) - 1)

\* Removal of the filesystem importer: sys.meta_path.pop().
InitFs(i, o) ==
    /\ pc[i] = "init_fs"
    /\ UNCHANGED << scope, pureVars >>
    /\ IF config[i].filesystem_importer
       THEN /\ o = "ok"
            /\ Goto(i, "init_flags")
            /\ UNCHANGED << log, meta_path >>
       ELSE \/ /\ o = "sys_err"
               /\ Return(i, "obtaining sys module")
               /\ UNCHANGED << log, meta_path >>
            \/ /\ o = "meta_err"
               /\ Return(i, "obtaining sys.meta_path")
               /\ UNCHANGED << log, meta_path >>
            \/ /\ \/ o = "pop_err"
                  \/ o = "ok" /\ meta_path = << >>   \* pop from empty list
               /\ Logged(i, "meta_path.pop")
               /\ Return(i, "sys.meta_path.pop()")
               /\ UNCHANGED meta_path
            \/ /\ o = "ok"
               /\ meta_path # << >>
               /\ Logged(i, "meta_path.pop")
               /\ meta_path' = MetaPathPop(meta_path)
               /\ Goto(i, "init_flags")
    /\ UNCHANGED << instVars, calls, guardOwner, poisoned, env, tabVars, rt,
                    rtOwner, gilHolder >>

\* The PySys_SetObject calls init makes for outcome o, in source order.
FlagWrites(cfg, o) ==
    LET a == IF cfg.argvb THEN << "set_argvb" >> ELSE << >>
        f == IF cfg.sys_frozen THEN << "set_frozen" >> ELSE << >>
        m == IF cfg.sys_meipass THEN << "set_meipass" >> ELSE << >>
    IN CASE o = "argvb_err" -> a
         [] o = "oxidized_err" -> a \o << "set_oxidized" >>
         [] o = "frozen_err" -> a \o << "set_oxidized" >> \o f
         [] OTHER -> a \o << "set_oxidized" >> \o f \o m

FlagResult(o) ==
    CASE o = "argvb_err" -> "unable to set sys.argvb"
      [] o = "oxidized_err" -> "unable to set sys.oxidized"
      [] o = "frozen_err" -> "unable to set sys.frozen"
      [] o = "meipass_err" -> "unable to set sys._MEIPASS"
      [] OTHER -> "Ok"

\* self.py, the Initialized state and the sys.* flags.
InitFinish(i, o) ==
    /\ pc[i] = "init_flags"
    /\ UNCHANGED << scope, pureVars >>
    /\ o = "argvb_err" => config[i].argvb
    /\ o = "frozen_err" => config[i].sys_frozen
    /\ o = "meipass_err" => config[i].sys_meipass
    /\ py' = [py EXCEPT ![i] = TRUE]
    /\ interpreter_state' = [interpreter_state EXCEPT ![i] = "Initialized"]
    /\ LoggedAll(i, FlagWrites(config[i], o))
    /\ Return(i, FlagResult(o))
    /\ UNCHANGED << config, interpreter_guard, raw_allocator, gil,
                    resources_state, calls, guardOwner, poisoned, env, rtVars,
                    tabVars >>

(* ---------------------- release_gil / acquire_gil ----------------------- *)

\* GILGuard::acquire is PyGILState_Ensure: it blocks while another thread
\* holds the GIL and records whether the caller held it already.
GILGuardAcquireEnabled(i) == gilHolder \in {0, i}
GILGuardState(i) == IF gilHolder = i THEN "LOCKED" ELSE "UNLOCKED"

\* Dropping a GILGuard is PyGILState_Release: the GIL is given up only by
\* the guard whose acquire took it.
GilHolderAfterDrop(i) ==
    IF gil[i] = "UNLOCKED" /\ gilHolder = i THEN 0 ELSE gilHolder

release_gil(i) ==
    /\ pc[i] = "idle"
    /\ UNCHANGED << scope, pureVars >>
    /\ calls < scope.calls
    /\ calls' = calls + 1
    /\ IF py[i]
       THEN /\ py' = [py EXCEPT ![i] = FALSE]
            /\ gil' = [gil EXCEPT ![i] = None]
            /\ gilHolder' = GilHolderAfterDrop(i)
       ELSE UNCHANGED << py, gil, gilHolder >>
    /\ Return(i, "()")
    /\ UNCHANGED << config, interpreter_state, interpreter_guard, raw_allocator,
                    resources_state, log, guardOwner, poisoned, env,
                    tabVars, rt, rtOwner, meta_path >>

\* The error acquire_gil returns outside the Initialized state.
AcquireGilErrorWithoutFinalizedArm(st) ==
    CASE st = "NotStarted" -> "interpreter not initialized"
      [] st = "Initializing" -> "interpreter not fully initialized"
      [] OTHER -> "Ok"

AcquireGilError(st) ==
    CASE st = "NotStarted" -> "interpreter not initialized"
      [] st = "Initializing" -> "interpreter not fully initialized"
      [] st = "Finalized" -> "interpreter is finalized"
      [] OTHER -> "Ok"

acquire_gil(i) ==
    /\ pc[i] = "idle"
    /\ UNCHANGED << scope, pureVars >>
    /\ calls < scope.calls
    /\ calls' = calls + 1
    /\ IF AcquireGilError(interpreter_state[i]) # "Ok"
       THEN /\ Return(i, AcquireGilError(interpreter_state[i]))
            /\ UNCHANGED << py, gil, gilHolder >>
       ELSE IF py[i]
       THEN /\ Return(i, "Python")
            /\ UNCHANGED << py, gil, gilHolder >>
       ELSE /\ GILGuardAcquireEnabled(i)
            /\ gil' = [gil EXCEPT ![i] = GILGuardState(i)]
            /\ gilHolder' = i
            /\ py' = [py EXCEPT ![i] = TRUE]
            /\ Return(i, "Python")
    /\ UNCHANGED << config, interpreter_state, interpreter_guard, raw_allocator,
                    resources_state, log, guardOwner, poisoned, env,
                    tabVars, rt, rtOwner, meta_path >>

(* ------------------------------ py_runmain ----------------------------- *)

\* Py_RunMain(), which runs the configured program and finalizes the runtime.
PyRunMain(i) ==
    /\ pc[i] = "idle"
    /\ UNCHANGED << scope, pureVars >>
    /\ calls < scope.calls
    /\ calls' = calls + 1
    /\ Logged(i, "Py_RunMain")
    /\ FinalizeRuntime
    /\ Goto(i, "run_guard")
    /\ UNCHANGED << instVars, guardOwner, poisoned, env, tabVars >>

\* self.interpreter_guard = None.
RunMainGuard(i) ==
    /\ pc[i] = "run_guard"
    /\ UNCHANGED << scope, pureVars >>
    /\ IF interpreter_guard[i]
       THEN /\ guardOwner' = 0
            /\ Logged(i, "guard_release")
       ELSE UNCHANGED << guardOwner, log >>
    /\ interpreter_guard' = [interpreter_guard EXCEPT ![i] = FALSE]
    /\ Goto(i, "run_state")
    /\ UNCHANGED << config, interpreter_state, raw_allocator, gil, py,
                    resources_state, calls, poisoned, env, rtVars, tabVars >>

\* The Finalized state and the release of resources_state, py and gil.
RunMainState(i) ==
    /\ pc[i] = "run_state"
    /\ UNCHANGED << scope, pureVars >>
    /\ interpreter_state' = [interpreter_state EXCEPT ![i] = "Finalized"]
    /\ resources_state' = [resources_state EXCEPT ![i] = FALSE]
    /\ IF resources_state[i] THEN Logged(i, "resources_drop") ELSE UNCHANGED log
    /\ py' = [py EXCEPT ![i] = FALSE]
    /\ gil' = [gil EXCEPT ![i] = None]
    /\ gilHolder' = GilHolderAfterDrop(i)
    /\ Return(i, "exit code")
    /\ UNCHANGED << config, interpreter_guard, raw_allocator, calls, guardOwner,
                    poisoned, env, tabVars, rt, rtOwner, meta_path >>

(* --------------------------------- Drop -------------------------------- *)

\* The modules-file block of drop().  isSet: env::var(key) is Ok; wr: what
\* write_modules_to_directory returned.  acquire_gil().unwrap() panics
\* outside the Initialized state.
Drop(i, isSet, wr) ==
    /\ pc[i] = "idle"
    /\ UNCHANGED << scope, pureVars >>
    /\ IF config[i].write_modules_directory_env /\ isSet
       THEN IF interpreter_state[i] # "Initialized"
            THEN /\ wr = "ok"
                 /\ Logged(i, "unwrap_panic")
                 /\ Goto(i, "drop_unwind")
                 /\ UNCHANGED << py, gil, gilHolder >>
            ELSE /\ py[i] \/ GILGuardAcquireEnabled(i)
                 /\ gil' = IF py[i] THEN gil
                           ELSE [gil EXCEPT ![i] = GILGuardState(i)]
                 /\ gilHolder' = IF py[i] THEN gilHolder ELSE i
                 /\ py' = [py EXCEPT ![i] = TRUE]
                 /\ Logged(i, IF wr = "ok" THEN "write_modules"
                                           ELSE "write_modules_error")
                 /\ Goto(i, "drop_finalize")
       ELSE /\ ~isSet /\ wr = "ok"
            /\ Goto(i, "drop_finalize")
            /\ UNCHANGED << py, gil, gilHolder, log >>
    /\ UNCHANGED << config, interpreter_state, interpreter_guard, raw_allocator,
                    resources_state, calls, guardOwner, poisoned, env, tabVars,
                    rt, rtOwner, meta_path >>

\* Py_FinalizeEx() at the end of drop().
DropFinalize(i) ==
    /\ pc[i] = "drop_finalize"
    /\ UNCHANGED << scope, pureVars >>
    /\ Logged(i, "Py_FinalizeEx")
    /\ FinalizeRuntime
    /\ Goto(i, "drop_fields")
    /\ UNCHANGED << instVars, calls, guardOwner, poisoned, env, tabVars >>

\* The fields are dropped after drop() returned or while it unwinds; a
\* MutexGuard dropped by a panicking thread poisons the mutex.
DropFields(i) ==
    /\ pc[i] \in {"drop_fields", "drop_unwind"}
    /\ UNCHANGED << scope, pureVars >>
    /\ IF interpreter_guard[i]
       THEN /\ guardOwner' = 0
            /\ poisoned' = (poisoned \/ pc[i] = "drop_unwind")
       ELSE UNCHANGED << guardOwner, poisoned >>
    /\ LoggedAll(i,
          (IF interpreter_guard[i] THEN << "guard_release" >> ELSE << >>)
          \o (IF resources_state[i] THEN << "resources_drop" >> ELSE << >>))
    /\ interpreter_guard' = [interpreter_guard EXCEPT ![i] = FALSE]
    /\ gilHolder' = GilHolderAfterDrop(i)
    /\ gil' = [gil EXCEPT ![i] = None]
    /\ py' = [py EXCEPT ![i] = FALSE]
    /\ resources_state' = [resources_state EXCEPT ![i] = FALSE]
    /\ raw_allocator' = [raw_allocator EXCEPT ![i] = None]
    /\ config' = [config EXCEPT ![i] = DefaultConfig]
    /\ interpreter_state' = [interpreter_state EXCEPT ![i] = "NotStarted"]
    /\ pc' = [pc EXCEPT ![i] = "dropped"]
    /\ result' = [result EXCEPT ![i] = None]
    /\ UNCHANGED << calls, env, tabVars, rt, rtOwner, meta_path >>

(* ----------------------- write_modules_to_directory -------------------- *)

\* The byte written after every name.
Newline == << 10 >>

\* Module names, as the bytes of their UTF-8 text: "a", "b", "c" and "ab".
ModuleNames == { << 97 >>, << 98 >>, << 99 >>, << 97, 98 >> }

\* Keys of sys.modules: str objects, and one object that is not a str.
ModuleKeys ==
    { [str |-> TRUE, text |-> t] : t \in ModuleNames }
    \cup { [str |-> FALSE, text |-> << >>] }

\* The item lists of up to MaxModules keys.
ModuleLists == UNION { [1..n -> ModuleKeys] : n \in 0..MaxModules }

\* Ord for String: the byte-wise lexicographic order.
RECURSIVE StrLess(_, _)
StrLess(x, y) ==
    IF y = << >> THEN FALSE
    ELSE IF x = << >> THEN TRUE
    ELSE IF Head(x) # Head(y) THEN Head(x) < Head(y)
    ELSE StrLess(Tail(x), Tail(y))

\* A Vec in place of the BTreeSet: pushes x at the end.
VecPush(set, x) == Append(set, x)

\* BTreeSet::insert, on the ascending iteration order of the set.
BTreeSetInsert(set, x) ==
    IF \E j \in 1..Len(set) : set[j] = x THEN set
    ELSE LET k == Cardinality({ j \in 1..Len(set) : StrLess(set[j], x) })
         IN SubSeq(set, 1, k) \o << x >> \o SubSeq(set, k + 1, Len(set))

\* create_dir_all and the lookup of sys.modules as a dict.
WriteModulesOpen(o) ==
    /\ wm.pc = "start"
    /\ UNCHANGED << lifecycleVars, pd, ps >>
    /\ \/ /\ o = "dir_err"
          /\ wm' = [wm EXCEPT !.pc = "done",
                              !.result = "could not create directory for modules"]
       \/ /\ o = "sys_err"
          /\ wm' = [wm EXCEPT !.pc = "done", !.dir = TRUE,
                              !.result = "could not obtain sys module"]
       \/ /\ o = "modules_err"
          /\ wm' = [wm EXCEPT !.pc = "done", !.dir = TRUE,
                              !.result = "could not obtain sys.modules"]
       \/ /\ o = "dict_err"
          /\ wm' = [wm EXCEPT !.pc = "done", !.dir = TRUE,
                              !.result = "sys.modules is not a dict"]
       \/ /\ o = "ok"
          /\ wm' = [wm EXCEPT !.pc = "collect", !.dir = TRUE]

\* One iteration of the loop over modules.items(py).
WriteModulesInsert ==
    /\ wm.pc = "collect"
    /\ UNCHANGED << lifecycleVars, pd, ps >>
    /\ wm.iter < Len(wm.modules)
    /\ LET key == wm.modules[wm.iter + 1]
       IN IF key.str
          THEN wm' = [wm EXCEPT !.names = BTreeSetInsert(@, key.text),
                                !.iter = @ + 1]
          ELSE wm' = [wm EXCEPT !.pc = "done",
                                !.result = "module name is not a str"]

\* fs::File::create(path), once the loop is over.
WriteModulesCreate(o) ==
    /\ wm.pc = "collect"
    /\ UNCHANGED << lifecycleVars, pd, ps >>
    /\ wm.iter = Len(wm.modules)
    /\ \/ /\ o = "create_err"
          /\ wm' = [wm EXCEPT !.pc = "done",
                              !.result = "could not open file for writing"]
       \/ /\ o = "ok"
          /\ wm' = [wm EXCEPT !.pc = "write", !.file = TRUE,
                              !.bytes = << >>, !.iter = 0]

\* One iteration of the loop over names: write_fmt of the name and "\n".
\* A failing write leaves the first k bytes of the line in the file.
WriteModulesWrite(o) ==
    /\ wm.pc = "write"
    /\ UNCHANGED << lifecycleVars, pd, ps >>
    /\ wm.iter < Len(wm.names)
    /\ LET line == wm.names[wm.iter + 1] \o Newline
       IN \/ /\ o = "write_err"
             /\ \E k \in 0..(Len(line) - 1) :
                   wm' = [wm EXCEPT !.pc = "done",
                                    !.bytes = @ \o SubSeq(line, 1, k),
                                    !.result = "could not write"]
          \/ /\ o = "ok"
             /\ wm' = [wm EXCEPT !.bytes = @ \o line, !.iter = @ + 1]

\* Ok(()) after the last name.
WriteModulesOk ==
    /\ wm.pc = "write"
    /\ UNCHANGED << lifecycleVars, pd, ps >>
    /\ wm.iter = Len(wm.names)
    /\ wm' = [wm EXCEPT !.pc = "done", !.result = "Ok"]

(* ------------------- Starlark constructor PythonDistribution ----------- *)

\* Starlark values: strings and None.
StrValue(t) == [type |-> "string", text |-> t]
NoneValue == [type |-> "NoneType", text |-> ""]

\* Texts of the string arguments.
ArgTexts == {"sha256", "some_url", "some_path", "local_path_value"}

StrValues == { StrValue(t) : t \in ArgTexts }

\* The arguments with which required_str_arg and optional_str_arg return Ok:
\* sha256 is a string, local_path and url are strings or None.
ArgLists == [sha256 : StrValues,
             local_path : StrValues \cup {NoneValue},
             url : StrValues \cup {NoneValue}]

DestDirs == {"build/python_distributions", "/tmp/python_distributions"}

\* Value::get_type and Value::to_string.
get_type(v) == v.type
to_string(v) == IF v.type = "string" THEN v.text ELSE "None"

\* The check written with || in place of &&.
EitherDefined(local_path, url) ==
    get_type(local_path) # "NoneType" \/ get_type(url) # "NoneType"

\* local_path.get_type() != "NoneType" && url.get_type() != "NoneType".
BothDefined(local_path, url) ==
    get_type(local_path) # "NoneType" /\ get_type(url) # "NoneType"

\* The argument checks and the choice of the PythonDistributionLocation.
PythonDistribution ==
    /\ pd.pc = "call"
    /\ UNCHANGED << lifecycleVars, wm, ps >>
    /\ IF BothDefined(pd.local_path, pd.url)
       THEN pd' = [pd EXCEPT
                     !.pc = "done",
                     !.ret = [ok |-> FALSE,
                              code |-> "INCORRECT_PARAMETER_TYPE_ERROR_CODE",
                              message |-> "cannot define both local_path and url",
                              label |-> "cannot define both local_path and url"]]
       ELSE pd' = [pd EXCEPT
                     !.pc = "from_location",
                     !.distribution =
                        IF get_type(pd.local_path) # "NoneType"
                        THEN [variant |-> "Local",
                              local_path |-> to_string(pd.local_path),
                              sha256 |-> to_string(pd.sha256)]
                        ELSE [variant |-> "Url",
                              url |-> to_string(pd.url),
                              sha256 |-> to_string(pd.sha256)]]

\* PythonDistribution::from_location with the directory of CONTEXT.
from_location ==
    /\ pd.pc = "from_location"
    /\ UNCHANGED << lifecycleVars, wm, ps >>
    /\ pd' = [pd EXCEPT
                !.pc = "done",
                !.ret = [ok |-> TRUE,
                         value |-> [source |-> pd.distribution,
                                    dest_dir |-> pd.context,
                                    distribution |-> None]]]

(* ------------------------ text-stub-library parse_str ------------------ *)

\* A line of text is the sequence of its pieces; a str starts with another
\* when the pieces of the other are its first pieces.
TBD_V2_DOCUMENT_START == << "---", " !tapi-tbd", "-v2" >>
TBD_V3_DOCUMENT_START == << "---", " !tapi-tbd", "-v3" >>
TBD_V4_DOCUMENT_START == << "---", " !tapi-tbd" >>

\* The lines data.lines() can give.
Lines == { << "install-name: /usr/lib/libSystem.B.dylib" >>,
           << "---" >>,
           TBD_V2_DOCUMENT_START,
           TBD_V3_DOCUMENT_START,
           << "---", " !tapi-tbd", "", "tbd-version: 4" >> }

RECURSIVE SeqsUpTo(_, _)
SeqsUpTo(S, n) ==
    IF n = 0 THEN { << >> }
    ELSE LET shorter == SeqsUpTo(S, n - 1)
         IN shorter \cup { Append(q, x) : q \in shorter, x \in S }

\* The texts given to parse_str.
Texts == SeqsUpTo(Lines, MaxLines)

\* The documents YamlLoader::load_from_str can find in a text: each takes at
\* least one line, and serde_yaml accepts it ("good") or not ("bad").
Documents(data) == SeqsUpTo({"good", "bad"}, Len(data))

starts_with(line, prefix) ==
    /\ Len(prefix) <= Len(line)
    /\ SubSeq(line, 1, Len(prefix)) = prefix

\* The version chosen for a line that starts with "---".
LineVersion(line) ==
    IF starts_with(line, TBD_V2_DOCUMENT_START) THEN "V2"
    ELSE IF starts_with(line, TBD_V3_DOCUMENT_START) THEN "V3"
    ELSE IF starts_with(line, TBD_V4_DOCUMENT_START) THEN "V4"
    ELSE "V1"

\* The loop over data.lines(): one version for every "---" line.
RECURSIVE ScanLines(_)
ScanLines(lines) ==
    IF lines = << >> THEN << >>
    ELSE (IF starts_with(Head(lines), << "---" >>)
          THEN << LineVersion(Head(lines)) >>
          ELSE << >>)
         \o ScanLines(Tail(lines))

\* usize arithmetic without overflow checks wraps modulo 2^64 (2^32 on 32-bit
\* targets).  The modulus is scaled to the integers of the model checker; a
\* wrapped difference is above every length a Vec can have in both.
UsizeModulus == 2^30
WrappingSub(a, b) == (a - b + UsizeModulus) % UsizeModulus

\* YamlLoader::load_from_str(data)?.
ParseStrLoad(o) ==
    /\ ps.pc = "load"
    /\ UNCHANGED << lifecycleVars, wm, pd >>
    /\ \/ /\ o = "scan_err"
          /\ ps' = [ps EXCEPT !.pc = "done",
                              !.ret = [ok |-> FALSE, err |-> "YamlError"]]
       \/ /\ o = "ok"
          /\ ps' = [ps EXCEPT !.pc = "scan", !.yamls = ps.loaded]

\* The scan of the lines for document markers.
ParseStrScan ==
    /\ ps.pc = "scan"
    /\ UNCHANGED << lifecycleVars, wm, pd >>
    /\ ps' = [ps EXCEPT !.pc = "count",
                        !.document_versions = ScanLines(ps.data)]

\* The comparison of the marker count with the document count.  The
\* subtraction yamls.len() - 1 panics in a build with overflow checks when
\* yamls is empty and wraps in a build without them.
ParseStrCount ==
    /\ ps.pc = "count"
    /\ UNCHANGED << lifecycleVars, wm, pd >>
    /\ LET n == Len(ps.yamls)
           m == Len(ps.document_versions)
       IN IF n < 1 /\ ps.overflow_checks
          THEN ps' = [ps EXCEPT
                        !.pc = "done",
                        !.ret = [ok |-> FALSE,
                                 panic |-> "attempt to subtract with overflow"]]
          ELSE IF m = WrappingSub(n, 1)
          THEN ps' = [ps EXCEPT
                        !.pc = "records",
                        !.wrapped = (n < 1),
                        !.document_versions = << "V1" >> \o @]
          ELSE IF m # n
          THEN ps' = [ps EXCEPT
                        !.pc = "done",
                        !.wrapped = (n < 1),
                        !.ret = [ok |-> FALSE, err |-> "DocumentCountMismatch"]]
          ELSE ps' = [ps EXCEPT !.pc = "records", !.wrapped = (n < 1)]

\* One iteration of the loop over yamls: serde_yaml::from_str(&s)? for the
\* version at the document's index.
ParseStrRecord ==
    /\ ps.pc = "records"
    /\ ps.index < Len(ps.yamls)
    /\ UNCHANGED << lifecycleVars, wm, pd >>
    /\ IF ps.yamls[ps.index + 1] = "bad"
       THEN ps' = [ps EXCEPT !.pc = "done",
                             !.ret = [ok |-> FALSE, err |-> "Serde"]]
       ELSE ps' = [ps EXCEPT
                     !.index = @ + 1,
                     !.res = Append(@, [version |-> ps.document_versions[ps.index + 1],
                                        document |-> ps.index + 1])]

\* Ok(res).
ParseStrOk ==
    /\ ps.pc = "records"
    /\ ps.index = Len(ps.yamls)
    /\ UNCHANGED << lifecycleVars, wm, pd >>
    /\ ps' = [ps EXCEPT !.pc = "done", !.ret = [ok |-> TRUE, value |-> ps.res]]

(* ----------------------------- specification --------------------------- *)

Next ==
    \/ \E i \in Inst, k \in scope.configs, dirs \in BOOLEAN :
          New(i, ConfigList[k], dirs)
    \/ \E i \in Inst : CallInit(i)
    \/ \E i \in Inst : InitEnter(i)
    \/ \E i \in Inst : InitInittab(i)
    \/ \E i \in Inst : InitInittabPointer(i)
    \/ \E i \in Inst, o \in scope.outcomes : InitPre(i, o)
    \/ \E i \in Inst : InitAlloc(i)
    \/ \E i \in Inst, o \in scope.outcomes : InitCore(i, o)
    \/ \E i \in Inst, o \in scope.outcomes : InitResources(i, o)
    \/ \E i \in Inst, o \in scope.outcomes : InitMain(i, o)
    \/ \E i \in Inst, o \in scope.outcomes : InitFs(i, o)
    \/ \E i \in Inst, o \in scope.outcomes : InitFinish(i, o)
    \/ \E i \in Inst : release_gil(i)
    \/ \E i \in Inst : acquire_gil(i)
    \/ \E i \in Inst : PyRunMain(i)
    \/ \E i \in Inst : RunMainGuard(i)
    \/ \E i \in Inst : RunMainState(i)
    \/ \E i \in Inst, isSet \in BOOLEAN, wr \in {"ok", "err"} : Drop(i, isSet, wr)
    \/ \E i \in Inst : DropFinalize(i)
    \/ \E i \in Inst : DropFields(i)

Spec == Init /\ [][Next]_vars

SpecConc == InitConc /\ [][Next]_vars

\* A step of the handler thread i is executing: init(), py_runmain() or the
\* drop, once entered, run to their end unless they block on the guard.
Handler(i) ==
    \/ InitEnter(i)
    \/ InitInittab(i)
    \/ InitInittabPointer(i)
    \/ InitAlloc(i)
    \/ \E o \in scope.outcomes :
          \/ InitPre(i, o)
          \/ InitCore(i, o)
          \/ InitResources(i, o)
          \/ InitMain(i, o)
          \/ InitFs(i, o)
          \/ InitFinish(i, o)
    \/ RunMainGuard(i)
    \/ RunMainState(i)
    \/ DropFinalize(i)
    \/ DropFields(i)

\* The owner of instance i lets it go out of scope.
Teardown(i) == \E isSet \in BOOLEAN, wr \in {"ok", "err"} : Drop(i, isSet, wr)

\* The threads of SpecConc under fair scheduling, every instance being
\* dropped in the end.
SpecLive ==
    /\ InitConc
    /\ [][Next]_vars
    /\ \A i \in Inst : WF_pc(Handler(i)) /\ WF_pc(Teardown(i))

\* write_modules_to_directory called on any list of sys.modules items.
InitWriteModules ==
    /\ InitState
    /\ scope = SeqScope
    /\ \E ms \in ModuleLists :
          wm = [pc |-> "start", modules |-> ms, iter |-> 0, names |-> << >>,
                dir |-> FALSE, file |-> FALSE, bytes |-> << >>,
                result |-> None]
    /\ InitDistIdle
    /\ InitParseIdle

NextWriteModules ==
    \/ \E o \in {"ok", "dir_err", "sys_err", "modules_err", "dict_err"} :
          WriteModulesOpen(o)
    \/ WriteModulesInsert
    \/ \E o \in {"ok", "create_err"} : WriteModulesCreate(o)
    \/ \E o \in {"ok", "write_err"} : WriteModulesWrite(o)
    \/ WriteModulesOk

SpecWriteModules == InitWriteModules /\ [][NextWriteModules]_vars

\* The PythonDistribution constructor called with any well-typed arguments.
InitDistribution ==
    /\ InitState
    /\ scope = SeqScope
    /\ InitWriteIdle
    /\ InitParseIdle
    /\ \E args \in ArgLists, dir \in DestDirs :
          pd = [pc |-> "call", sha256 |-> args.sha256,
                local_path |-> args.local_path, url |-> args.url,
                context |-> dir, distribution |-> None, ret |-> None]

NextDistribution ==
    \/ PythonDistribution
    \/ from_location

SpecDistribution == InitDistribution /\ [][NextDistribution]_vars

\* parse_str called on any text, in a build with or without overflow checks.
InitParseStr ==
    /\ InitState
    /\ scope = SeqScope
    /\ InitWriteIdle
    /\ InitDistIdle
    /\ \E data \in Texts, checks \in BOOLEAN :
          \E docs \in Documents(data) :
             ps = [pc |-> "load", data |-> data, loaded |-> docs,
                   overflow_checks |-> checks, yamls |-> << >>,
                   document_versions |-> << >>, index |-> 0, res |-> << >>,
                   wrapped |-> FALSE, ret |-> None]

NextParseStr ==
    \/ \E o \in {"ok", "scan_err"} : ParseStrLoad(o)
    \/ ParseStrScan
    \/ ParseStrCount
    \/ ParseStrRecord
    \/ ParseStrOk

SpecParseStr == InitParseStr /\ [][NextParseStr]_vars

TypeOK ==
    /\ pc \in [Inst -> {"none", "idle", "init", "init_tab", "init_tab_ptr",
                        "init_pre", "init_alloc", "init_core", "init_res", "init_main",
                        "init_fs", "init_flags", "run_guard", "run_state",
                        "drop_finalize", "drop_fields", "drop_unwind", "dropped"}]
    /\ interpreter_state \in [Inst -> {"NotStarted", "Initializing",
                                       "Initialized", "Finalized"}]
    /\ guardOwner \in 0..NumInst
    /\ gilHolder \in 0..NumInst
    /\ rt \in {"uninit", "pre", "core", "main", "fin"}

(* ------------------------------- claims -------------------------------- *)

Last(s) == s[Len(s)]

Exists(i) == pc[i] \notin {"none", "dropped"}

Live(i) == Exists(i) /\ interpreter_state[i] \in {"Initializing", "Initialized"}

\* C1: at every moment of every interleaving of new(), py_runmain() and drop
\* on distinct instances, at most one instance is Initializing or Initialized.
C1_AtMostOneLive ==
    \A i, j \in Inst : i # j => ~(Live(i) /\ Live(j))

\* Number of times an effect that the configuration asks for once has fired.
Once(b) == IF b THEN 1 ELSE 0

FiredOnce(i) ==
    /\ Count(log[i], "guard_acquire") = 1
    /\ Count(log[i], "inittab") = 1
    /\ Count(log[i], "Py_PreInitialize") = 1
    /\ Count(log[i], "Py_InitializeFromConfig") = 1
    /\ Count(log[i], "_Py_InitializeMain") = 1
    /\ Count(log[i], "PyMem_SetAllocator")
         = Once(config[i].raw_allocator \in {"Jemalloc", "Rust"})
    /\ Count(log[i], "new_from_env") = Once(config[i].oxidized_importer)
    /\ Count(log[i], "initialize_importer") = Once(config[i].oxidized_importer)

\* C2: init() called on an Initialized instance returns Ok and changes
\* nothing, and each side effect of initialization has then fired exactly
\* once for the instance (the configured ones; the others never).
C2_BeginOnInitializedIsNoOp ==
    [][\A i \in Inst :
         (pc[i] = "init" /\ interpreter_state[i] = "Initialized"
          /\ pc'[i] # "init")
         => /\ pc'[i] = "idle"
            /\ result'[i] = "Ok"
            /\ UNCHANGED << instVars, log, guardOwner, env, tabVars, rtVars >>
            /\ FiredOnce(i)]_vars

\* C3: once an instance is Finalized it stays Finalized for as long as it
\* exists, and it never holds the guard again.
C3_FinalizedNeverReinitializes ==
    [][\A i \in Inst :
         (interpreter_state[i] = "Finalized" /\ pc'[i] # "dropped")
         => /\ interpreter_state'[i] = "Finalized"
            /\ ~interpreter_guard'[i]
            /\ UNCHANGED tabVars]_vars

\* The errors init() returns after it has entered Initializing.
FailedBeginErrors ==
    {"PyPreConfig::try_from", "Python pre-initialization", "PyConfig::try_into",
     "set_argv", "initializing Python core",
     "PythonResourcesState::new_from_env", "PythonResourcesState::load",
     "import of oxidized importer module", "initialization of oxidized importer",
     "initializing Python main", "obtaining sys module",
     "obtaining sys.meta_path", "sys.meta_path.pop()",
     "unable to set sys.argvb", "unable to set sys.oxidized",
     "unable to set sys.frozen", "unable to set sys._MEIPASS",
     "interpreter in initializing state"}

\* C4: an instance whose last init() returned an error after entering
\* Initializing is neither NotStarted nor Initialized: it is Initializing,
\* and a further init() on it returns the already-initializing error.
C4_FailedBeginIsTerminal ==
    \A i \in Inst :
        (Exists(i) /\ result[i] \in FailedBeginErrors)
        => interpreter_state[i] = "Initializing"

\* C5: an init() that returned the error of a step stopped at that step: the
\* last effect performed is the failing call, each of the three runtime
\* phases has an error of its own, and after a bootstrap error the runtime is
\* still in its first phase.
C5_FailFastNamesStep ==
    \A i \in Inst :
        pc[i] = "idle" =>
          /\ result[i] = "Python pre-initialization"
               => Last(log[i]) = "Py_PreInitialize"
          /\ result[i] = "initializing Python core"
               => Last(log[i]) = "Py_InitializeFromConfig"
          /\ result[i] = "initializing Python main"
               => Last(log[i]) = "_Py_InitializeMain"
          /\ result[i] = "PythonResourcesState::new_from_env"
               => Last(log[i]) = "new_from_env" /\ rt = "core"
          /\ result[i] = "PythonResourcesState::load"
               => Last(log[i]) = "load" /\ rt = "core"
          /\ result[i] = "import of oxidized importer module"
               => Last(log[i]) = "import_importer" /\ rt = "core"
          /\ result[i] = "initialization of oxidized importer"
               => Last(log[i]) = "initialize_importer" /\ rt = "core"

C5_Witness ==
    \E i \in Inst :
        /\ pc[i] = "idle"
        /\ result[i] = "PythonResourcesState::load"
        /\ Last(log[i]) = "load"
        /\ Count(log[i], "_Py_InitializeMain") = 0

\* C6: an init() that finds the guard poisoned returns the lock error and
\* does nothing else: the instance keeps its state (NotStarted for a new
\* one), holds no guard, and the environment, the import tables, the
\* allocator and the runtime are untouched.
C6_PoisonedGuardStopsBegin ==
    [][\A i \in Inst :
         (pc[i] = "init" /\ pc'[i] # "init" /\ poisoned
          /\ interpreter_state[i] \in {"NotStarted", "Finalized"})
         => /\ pc'[i] = "idle"
            /\ result'[i] = "unable to acquire global interpreter guard"
            /\ ~interpreter_guard'[i]
            /\ guardOwner' = guardOwner
            /\ UNCHANGED << instVars, env, tabVars, rtVars >>]_vars

C6_Witness ==
    \E i \in Inst :
        /\ pc[i] = "idle"
        /\ poisoned
        /\ result[i] = "unable to acquire global interpreter guard"
        /\ interpreter_state[i] = "NotStarted"
        /\ ~interpreter_guard[i]

\* C7: acquire_gil outside the Initialized state returns the error of the
\* state and leaves interpreter_state, py, gil and the GIL as they were.
C7_AcquireOutsideInitializedFails ==
    [][\A i \in Inst :
         (pc[i] = "idle" /\ pc'[i] = "idle" /\ result'[i] # "()"
          /\ interpreter_state[i] # "Initialized")
         => /\ \/ /\ interpreter_state[i] = "NotStarted"
                  /\ result'[i] = "interpreter not initialized"
               \/ /\ interpreter_state[i] = "Initializing"
                  /\ result'[i] = "interpreter not fully initialized"
               \/ /\ interpreter_state[i] = "Finalized"
                  /\ result'[i] = "interpreter is finalized"
            /\ UNCHANGED << interpreter_state, py, gil, gilHolder >>]_vars

C7_Witness ==
    \E i \in Inst :
        /\ pc[i] = "idle"
        /\ interpreter_state[i] = "Finalized"
        /\ result[i] = "interpreter is finalized"
        /\ ~py[i] /\ gil[i] = None

\* C8: on an Initialized instance acquire_gil returns a handle, and the
\* instance never acquires the GIL while its thread still holds it.
C8_AcquireReturnsHandleOnce ==
    \A i \in Inst :
        /\ (pc[i] = "idle" /\ interpreter_state[i] = "Initialized"
            /\ result[i] = "Python") => py[i]
        /\ gil[i] # "LOCKED"

\* C9: after release_gil on an Initialized instance its thread does not hold
\* the GIL.
C9_ReleaseFreesExecutionLock ==
    \A i \in Inst :
        (pc[i] = "idle" /\ interpreter_state[i] = "Initialized"
         /\ result[i] = "()")
        => gilHolder # i

\* C10: Py_RunMain is entered only for an Initialized instance.
C10_RunOnlyWhenInitialized ==
    \A i \in Inst :
        pc[i] = "run_guard" => interpreter_state[i] = "Initialized"

\* Positions of the effects of the set es in the sequence s.
Positions(s, es) == { k \in 1..Len(s) : s[k] \in es }

\* The diagnostics step of drop(): the write attempted, or the failure to
\* re-acquire the execution context for it.
Diagnostics == {"write_modules", "write_modules_error", "unwrap_panic"}

\* The calls that finalize the runtime.
Finalizations == {"Py_RunMain", "Py_FinalizeEx"}

\* C11: over the life of a dropped instance every diagnostics step precedes
\* every runtime finalization, every runtime finalization precedes the release
\* of the guard, and a guard that was acquired is released exactly once.
C11_TeardownOrder ==
    \A i \in Inst :
        pc[i] = "dropped" =>
          LET d == Positions(log[i], Diagnostics)
              f == Positions(log[i], Finalizations)
              g == Positions(log[i], {"guard_release"})
          IN /\ \A a \in d, b \in f : a < b
             /\ \A b \in f, c \in g : b < c
             /\ Cardinality(g) = Once(Count(log[i], "guard_acquire") > 0)

\* C12: over the life of a dropped instance the runtime teardown has been
\* performed exactly once, Py_RunMain and Py_FinalizeEx both counted.
C12_FinalizedExactlyOnce ==
    \A i \in Inst :
        pc[i] = "dropped" =>
          Cardinality(Positions(log[i], Finalizations)) = 1

\* C13: drop() never panics in its diagnostics step, whatever the state of the
\* instance, and a dropped instance has made the Py_FinalizeEx call of drop().
C13_DiagnosticsNeverFailTeardown ==
    \A i \in Inst :
        /\ pc[i] # "drop_unwind"
        /\ pc[i] = "dropped" =>
             /\ Count(log[i], "unwrap_panic") = 0
             /\ Count(log[i], "Py_FinalizeEx") = 1

\* The lexicographic order of two texts: x is a proper prefix of y, or is
\* smaller at the first byte where they differ.
LexBefore(x, y) ==
    \E k \in 1..Len(y) :
        /\ \A j \in 1..(k - 1) : j <= Len(x) /\ x[j] = y[j]
        /\ Len(x) >= k => x[k] < y[k]
        /\ Len(x) < k => Len(x) = k - 1

\* The texts of S in ascending order, each followed by a newline.
RECURSIVE SortedLines(_)
SortedLines(S) ==
    IF S = {} THEN << >>
    ELSE LET m == CHOOSE x \in S : \A y \in S \ {x} : LexBefore(x, y)
         IN m \o Newline \o SortedLines(S \ {m})

ModuleTexts == { wm.modules[j].text : j \in 1..Len(wm.modules) }

\* C14: when write_modules_to_directory returns Ok the file holds each
\* distinct name once, in ascending lexicographic order, each followed by a
\* newline, and nothing else; when a key is not a str it returns an error and
\* no file exists.
C14_ModulesFileSortedDistinct ==
    wm.pc = "done" =>
      /\ wm.result = "Ok" => wm.file /\ wm.bytes = SortedLines(ModuleTexts)
      /\ (\E j \in 1..Len(wm.modules) : ~wm.modules[j].str)
           => wm.result # "Ok" /\ ~wm.file

\* Names b, a, a, c give a, b, c on three lines.
C14_Witness ==
    /\ wm.pc = "done"
    /\ wm.result = "Ok"
    /\ Len(wm.modules) = 4
    /\ [j \in 1..4 |-> wm.modules[j].text]
         = << << 98 >>, << 97 >>, << 97 >>, << 99 >> >>
    /\ wm.bytes = << 97, 10, 98, 10, 99, 10 >>

\* C15: the table the runtime's pointer designates always ends with the NULL
\* record; once the canonical copy exists it holds the entries of the table
\* compiled into libpython, every one of them is in the active table, and no
\* later rebuild changes it.
C15_InittabKeepsCanonicalEntries ==
    /\ [](/\ PyImport_Inittab # << >>
          /\ Last(PyImport_Inittab) = Sentinel
          /\ ORIGINAL_BUILTIN_EXTENSIONS # << >> =>
               /\ ORIGINAL_BUILTIN_EXTENSIONS[1] = UntilSentinel(BuiltinInittab)
               /\ \A k \in 1..Len(ORIGINAL_BUILTIN_EXTENSIONS[1]) :
                    \E j \in 1..Len(PyImport_Inittab) :
                        PyImport_Inittab[j] = ORIGINAL_BUILTIN_EXTENSIONS[1][k])
    /\ [][ORIGINAL_BUILTIN_EXTENSIONS # << >> =>
            ORIGINAL_BUILTIN_EXTENSIONS' = ORIGINAL_BUILTIN_EXTENSIONS]_vars

\* A second instance, with another configuration, has rebuilt the table after
\* the first one did.
C15_Witness ==
    \E i, j \in Inst :
        /\ i # j
        /\ ~poisoned
        /\ interpreter_state[j] = "Finalized"
        /\ config[j] = ConfigList[1]
        /\ interpreter_state[i] = "Initialized"
        /\ config[i] = ConfigList[2]
        /\ ORIGINAL_BUILTIN_EXTENSIONS = << << "posix", "_io" >> >>
        /\ PyImport_Inittab = << "posix", "_io", Sentinel >>

\* Position of the importer e in the chain mp, 0 when it is not there.
IndexOf(mp, e) ==
    IF \E k \in 1..Len(mp) : mp[k] = e
    THEN CHOOSE k \in 1..Len(mp) : mp[k] = e
    ELSE 0

\* C16: the step of init() that follows _Py_InitializeMain and precedes the
\* Initialized state removes, when the filesystem importer is disabled,
\* exactly the filesystem importer from sys.meta_path and keeps the others in
\* their order, an enabled oxidized importer first; when it is enabled, the
\* step removes nothing and the filesystem importer comes after the oxidized
\* importer.
C16_FilesystemImporterRemoved ==
    [][\A i \in Inst :
         (pc[i] = "init_fs" /\ pc'[i] = "init_flags")
         => /\ rt = "main"
            /\ interpreter_state[i] = "Initializing"
            /\ IndexOf(meta_path, "PathFinder") > 0
            /\ config[i].oxidized_importer =>
                 /\ IndexOf(meta_path', "OxidizedFinder") = 1
                 /\ \A k \in 2..Len(meta_path') : meta_path'[k] # "OxidizedFinder"
            /\ IF config[i].filesystem_importer
               THEN /\ meta_path' = meta_path
                    /\ IndexOf(meta_path', "OxidizedFinder")
                         < IndexOf(meta_path', "PathFinder")
               ELSE /\ Len(meta_path') = Len(meta_path) - 1
                    /\ meta_path' = SelectSeq(meta_path,
                                              LAMBDA e : e # "PathFinder")]_vars

C16_Witness ==
    \E i \in Inst :
        /\ interpreter_state[i] = "Initialized"
        /\ config[i].oxidized_importer
        /\ ~config[i].filesystem_importer
        /\ rt = "main"
        /\ rtOwner = i
        /\ Count(log[i], "meta_path.pop") = 1
        /\ meta_path = << "OxidizedFinder", "BuiltinImporter", "FrozenImporter" >>

\* The effects of the init() that instance i entered last, from its lock of
\* the guard on.
Begin(i) ==
    LET g == Positions(log[i], {"guard_acquire"})
    IN IF g = {} THEN << >>
       ELSE SubSeq(log[i], CHOOSE k \in g : \A j \in g : j <= k, Len(log[i]))

\* C17: within an init() PyMem_SetAllocator precedes PyMem_SetupDebugHooks and
\* both precede Py_InitializeFromConfig; an init() that reached
\* Py_InitializeFromConfig has installed the configured Jemalloc or Rust
\* allocator and, with the debug flag, the debug hooks.
C17_AllocatorBeforeCoreInit ==
    \A i \in Inst :
        Exists(i) =>
          LET a == Positions(Begin(i), {"PyMem_SetAllocator"})
              h == Positions(Begin(i), {"PyMem_SetupDebugHooks"})
              c == Positions(Begin(i), {"Py_InitializeFromConfig"})
          IN /\ \A x \in a, z \in c : x < z
             /\ \A y \in h, z \in c : y < z
             /\ \A x \in a, y \in h : x < y
             /\ (c # {} /\ config[i].raw_allocator \in {"Jemalloc", "Rust"})
                  => Cardinality(a) = 1
             /\ (c # {} /\ config[i].raw_allocator # None /\ config[i].debug)
                  => Cardinality(h) = 1
             /\ config[i].raw_allocator \in {None, "System"} => a = {}
             /\ (config[i].raw_allocator = None \/ ~config[i].debug) => h = {}

C17_Witness ==
    \E i \in Inst :
        /\ interpreter_state[i] = "Initialized"
        /\ config[i].raw_allocator = "Rust"
        /\ config[i].debug
        /\ Positions(Begin(i), {"PyMem_SetAllocator"}) # {}
        /\ Positions(Begin(i), {"PyMem_SetupDebugHooks"}) # {}
        /\ Positions(Begin(i), {"Py_InitializeFromConfig"}) # {}

\* The calls of the resources block of init().
ResourceCalls == {"new_from_env", "load", "import_importer",
                  "initialize_importer"}

\* C18: within an init() the calls that create and load the resources state
\* and register the importer come after Py_InitializeFromConfig and before
\* _Py_InitializeMain, and an init() of a configuration with the oxidized
\* importer that reached _Py_InitializeMain has made them; without the
\* oxidized importer none is made, resources_state stays None and no finder
\* is registered.
C18_ResourcesBetweenCoreAndMain ==
    \A i \in Inst :
        Exists(i) =>
          LET r == Positions(Begin(i), ResourceCalls)
              c == Positions(Begin(i), {"Py_InitializeFromConfig"})
              m == Positions(Begin(i), {"_Py_InitializeMain"})
          IN /\ \A x \in r : \E z \in c : z < x
             /\ \A x \in r, y \in m : x < y
             /\ (config[i].oxidized_importer /\ m # {})
                  => /\ Positions(Begin(i), {"load"}) # {}
                     /\ Positions(Begin(i), {"initialize_importer"}) # {}
             /\ ~config[i].oxidized_importer
                  => /\ r = {}
                     /\ ~resources_state[i]
                     /\ \A k \in 1..Len(meta_path) :
                          meta_path[k] # "OxidizedFinder"

C18_Witness ==
    \E i \in Inst :
        /\ interpreter_state[i] = "Initialized"
        /\ config[i].oxidized_importer
        /\ resources_state[i]
        /\ Positions(Begin(i), {"initialize_importer"}) # {}
        /\ Positions(Begin(i), {"_Py_InitializeMain"}) # {}
        /\ IndexOf(meta_path, "OxidizedFinder") = 1

\* C19: a returned PythonDistribution call gave the error "cannot define both
\* local_path and url" and no value when both were given, a value with source
\* Local of the local_path and the sha256 when only local_path was given, a
\* value with source Url of the url and the sha256 when only url was given;
\* a value it constructed has no resolved distribution.
C19_PythonDistributionConstructor ==
    pd.pc = "done" =>
      LET lp == pd.local_path.type = "string"
          u == pd.url.type = "string"
      IN /\ (lp /\ u) =>
              /\ ~pd.ret.ok
              /\ pd.ret.message = "cannot define both local_path and url"
              /\ DOMAIN pd.ret = {"ok", "code", "message", "label"}
         /\ (lp /\ ~u) =>
              /\ pd.ret.ok
              /\ pd.ret.value.source =
                   [variant |-> "Local",
                    local_path |-> pd.local_path.text,
                    sha256 |-> pd.sha256.text]
         /\ (~lp /\ u) =>
              /\ pd.ret.ok
              /\ pd.ret.value.source =
                   [variant |-> "Url",
                    url |-> pd.url.text,
                    sha256 |-> pd.sha256.text]
         /\ pd.ret.ok => pd.ret.value.distribution = None

C19_Witness ==
    /\ pd.pc = "done"
    /\ pd.sha256 = StrValue("sha256")
    /\ pd.local_path = StrValue("some_path")
    /\ pd.url = NoneValue
    /\ pd.ret.ok
    /\ pd.ret.value.source.variant = "Local"
    /\ pd.ret.value.source.local_path = "some_path"
    /\ pd.ret.value.source.sha256 = "sha256"

\* The calls of the allocator block of init().
AllocatorInstalls == {"PyMem_SetAllocator", "PyMem_SetupDebugHooks"}

\* C20: within an init() the table rebuild precedes the installation of the
\* allocator, which precedes Py_PreInitialize, which precedes
\* Py_InitializeFromConfig.
C20_AllocatorBeforePreInit ==
    \A i \in Inst :
        Exists(i) =>
          LET t == Positions(Begin(i), {"inittab"})
              a == Positions(Begin(i), AllocatorInstalls)
              p == Positions(Begin(i), {"Py_PreInitialize"})
              c == Positions(Begin(i), {"Py_InitializeFromConfig"})
          IN /\ \A w \in t, x \in a : w < x
             /\ \A x \in a, y \in p : x < y
             /\ \A y \in p, z \in c : y < z

\* C20, amended: within an init() the table rebuild precedes
\* Py_PreInitialize, which precedes the installation of the allocator, which
\* precedes Py_InitializeFromConfig; an init() that reached
\* Py_InitializeFromConfig has rebuilt the table and pre-initialized.
C20_PreInitBeforeAllocator ==
    \A i \in Inst :
        Exists(i) =>
          LET t == Positions(Begin(i), {"inittab"})
              a == Positions(Begin(i), AllocatorInstalls)
              p == Positions(Begin(i), {"Py_PreInitialize"})
              c == Positions(Begin(i), {"Py_InitializeFromConfig"})
          IN /\ \A w \in t, y \in p : w < y
             /\ \A y \in p, x \in a : y < x
             /\ \A x \in a, z \in c : x < z
             /\ \A w \in t, z \in c : w < z
             /\ \A y \in p, z \in c : y < z
             /\ a # {} => p # {}
             /\ p # {} => t # {}
             /\ c # {} => p # {}

C20_Witness ==
    \E i \in Inst :
        /\ interpreter_state[i] = "Initialized"
        /\ config[i].raw_allocator = "Rust"
        /\ Positions(Begin(i), {"inittab"}) # {}
        /\ Positions(Begin(i), {"Py_PreInitialize"}) # {}
        /\ Positions(Begin(i), {"PyMem_SetAllocator"}) # {}
        /\ Positions(Begin(i), {"Py_InitializeFromConfig"}) # {}

\* C21: a step that changes the process environment is taken by a thread
\* whose instance holds the guard, while no other instance is Initializing or
\* Initialized.
C21_EnvWrittenUnderGuard ==
    [][\A i \in Inst :
         (pc'[i] # pc[i] /\ env' # env)
         => /\ guardOwner = i
            /\ interpreter_guard[i]
            /\ \A j \in Inst \ {i} : ~Live(j)]_vars

\* C22: ORIGINAL_BUILTIN_EXTENSIONS, REPLACED_BUILTIN_EXTENSIONS and the
\* runtime's table pointer are written only by a thread whose instance holds
\* the guard, and no two threads are inside set_pyimport_inittab at once.
InInittab(i) == pc[i] \in {"init_tab", "init_tab_ptr"}

C22_InittabWrittenUnderGuard ==
    /\ [](\A i \in Inst :
             InInittab(i) => /\ guardOwner = i
                             /\ interpreter_guard[i]
                             /\ \A j \in Inst \ {i} : ~InInittab(j))
    /\ [][tabVars' # tabVars
          => \E i \in Inst : /\ InInittab(i)
                             /\ pc'[i] # pc[i]
                             /\ guardOwner = i
                             /\ interpreter_guard[i]]_vars

\* A thread rebuilds the table while another construction waits for the guard.
C22_Witness ==
    \E i, j \in Inst :
        /\ i # j
        /\ pc[i] = "init_tab_ptr"
        /\ REPLACED_BUILTIN_EXTENSIONS # << PyImport_Inittab >>
        /\ pc[j] = "init"
        /\ interpreter_state[j] = "NotStarted"

C24_InittabNeverFreed == ~inittab_dangling

\* C25: the ResourceState of an instance is dropped only once the runtime
\* its begin initialized has been finalized, and it is never replaced by a
\* new one while it is held.
C25_ResourcesOutliveRuntime ==
    /\ [](\A i \in Inst : pc[i] = "init_res" => ~resources_state[i])
    /\ [][\A i \in Inst :
             (resources_state[i] /\ ~resources_state'[i])
             => ~(RuntimeUp /\ rtOwner = i)]_vars

\* C27: whenever an instance is Initialized and no call on it is under way,
\* the runtime its begin initialized is alive: no teardown of another
\* instance has finalized it.
C27_InitializedRuntimeAlive ==
    \A i \in Inst :
        (pc[i] = "idle" /\ interpreter_state[i] = "Initialized")
        => (rt = "main" /\ rtOwner = i)

\* C28: the drop of an instance that is Initializing and holds the guard
\* releases the guard and leaves it unpoisoned.
C28_FailedBeginDropReleasesGuard ==
    [][\A i \in Inst :
         (/\ interpreter_state[i] = "Initializing"
          /\ interpreter_guard[i]
          /\ pc'[i] = "dropped")
         => (guardOwner' = 0 /\ ~poisoned')]_vars

\* C26: under fair scheduling, with every instance torn down in the end, a
\* construction that waits for the guard acquires it, and a begin that has
\* started returns.
InBegin(i) ==
    pc[i] \in {"init", "init_tab", "init_tab_ptr", "init_pre", "init_alloc",
               "init_core", "init_res", "init_main", "init_fs", "init_flags"}

C26_BlockedConstructionAcquires ==
    /\ \A i \in Inst :
          (pc[i] = "init" /\ interpreter_state[i] = "NotStarted")
          ~> interpreter_guard[i]
    /\ \A i \in Inst : InBegin(i) ~> ~InBegin(i)

\* C29: when parse_str has returned, the subtraction of line 105 has neither
\* panicked nor wrapped; with as many "---" lines as documents the result is
\* one record per document with the version of the marker of the same rank,
\* with one marker fewer a version-1 tag comes first, zero documents and zero
\* markers give the empty list, and every other combination is
\* DocumentCountMismatch.
MarkerLines(data) == SelectSeq(data, LAMBDA l : starts_with(l, << "---" >>))

Tags(data) ==
    [k \in 1..Len(MarkerLines(data)) |-> LineVersion(MarkerLines(data)[k])]

C29_ParseStrCountsDocuments ==
    (ps.pc = "done" /\ ps.ret # [ok |-> FALSE, err |-> "YamlError"])
    => LET n == Len(ps.loaded)
           m == Len(MarkerLines(ps.data))
           tags == IF m = n THEN Tags(ps.data) ELSE << "V1" >> \o Tags(ps.data)
       IN /\ ~ps.wrapped
          /\ ps.ret # [ok |-> FALSE,
                       panic |-> "attempt to subtract with overflow"]
          /\ IF m = n \/ m = n - 1
             THEN \/ ps.ret = [ok |-> FALSE, err |-> "Serde"]
                  \/ ps.ret = [ok |-> TRUE,
                               value |-> [k \in 1..n |->
                                            [version |-> tags[k],
                                             document |-> k]]]
             ELSE ps.ret = [ok |-> FALSE, err |-> "DocumentCountMismatch"]

====
